---------------------------- MODULE Spec2Model ----------------------------
(***************************************************************************)
(* A model of welfare_record_app (src/main.py): the POST /process          *)
(* pipeline (upload, AI extraction, manual override, workbook writing),    *)
(* GET /download, and the post-response cleanup tasks.                     *)
(*                                                                         *)
(* Strings are sequences of one-character tokens.  The lexer accepts only  *)
(* ASCII in string literals, so the Japanese characters and dictionary     *)
(* keys of the source are written in romaji; each is introduced by a       *)
(* comment that gives the source's spelling.                               *)
(***************************************************************************)
EXTENDS Integers, Sequences, FiniteSets, TLC

VARIABLES
    client,      \* the module-level Gemini client handle (None when not initialised)
    requests,    \* POST /process requests: input, response and position
    tempDir,     \* the files of TEMP_DIR
    outputDir,   \* the files of OUTPUT_DIR: name -> workbook
    downloads,   \* GET /download requests
    debugFile,   \* debug_last_response.json: the request whose AI answer it holds
    rv,          \* the override resolver applied to one drawn input
    fx           \* fill_excel applied to one drawn input

vars == <<client, requests, tempDir, outputDir, downloads, debugFile, rv, fx>>

-----------------------------------------------------------------------------
(* Python values *)

\* Python's None; "None" is not a character of any modelled string.
None == <<"None">>

\* bool(v) of a str or None
Truthy(v) == v # None /\ v # <<>>

\* str.isspace() of one character: the space and the full-width space
IsSpace(c) == c \in {" ", "zsp"}

RECURSIVE LStrip(_)
LStrip(s) == IF s # <<>> /\ IsSpace(Head(s)) THEN LStrip(Tail(s)) ELSE s

RECURSIVE RStrip(_)
RStrip(s) ==
    IF s # <<>> /\ IsSpace(s[Len(s)]) THEN RStrip(SubSeq(s, 1, Len(s) - 1)) ELSE s

\* str.strip()
Strip(s) == RStrip(LStrip(s))

\* `v and v.strip()` as a condition
Supplied(v) == Truthy(v) /\ Strip(v) # <<>>

DigitChars == <<"0", "1", "2", "3", "4", "5", "6", "7", "8", "9">>

IsDigit(c) == \E i \in 1..10 : DigitChars[i] = c

DigitVal(c) == (CHOOSE i \in 1..10 : DigitChars[i] = c) - 1

\* str(n) of a natural number
RECURSIVE DecNat(_)
DecNat(n) == IF n < 10 THEN <<DigitChars[n + 1]>>
             ELSE DecNat(n \div 10) \o <<DigitChars[(n % 10) + 1]>>

\* f"{n}" of an int
Dec(n) == IF n < 0 THEN <<"-">> \o DecNat(0 - n) ELSE DecNat(n)

\* "%02d" (strftime's %m, %d)
Pad2(n) == IF n < 10 THEN <<"0">> \o DecNat(n) ELSE DecNat(n)

\* "%04d" (strftime's %Y, for the years 1000..9999 of the model)
Pad4Year(n) == DecNat(n)

-----------------------------------------------------------------------------
(* Python dicts, in insertion order: a sequence of <<key, value>> pairs with *)
(* distinct keys.                                                            *)

Keys(m) == {m[i][1] : i \in 1..Len(m)}

\* key in m
Has(m, k) == k \in Keys(m)

\* m[key], for a key of m
Get(m, k) == m[CHOOSE i \in 1..Len(m) : m[i][1] = k][2]

\* m[key] = value
Put(m, k, v) ==
    IF Has(m, k) THEN [i \in 1..Len(m) |-> IF m[i][1] = k THEN <<k, v>> ELSE m[i]]
    ELSE Append(m, <<k, v>>)

\* m after m.pop(key, None)
Without(m, k) ==
    LET keep(p) == p[1] # k IN SelectSeq(m, keep)

-----------------------------------------------------------------------------
(* The dictionary keys of the source, in romaji *)

K_riyousha_shimei == "riyousha_shimei"                  \* "利用者氏名"
K_shimei == "shimei"                                    \* "氏名"
K_riyousha_shimei_furigana == "riyousha_shimei_furigana" \* "利用者氏名_ふりがな"
K_shimei_no_furigana == "shimei_no_furigana"            \* "氏名のふりがな"
K_sakuseisha == "sakuseisha"                            \* "作成者"
K_sakusei_nen_seireki == "sakusei_nen_seireki"          \* "作成年_西暦"
K_sakusei_tsuki == "sakusei_tsuki"                      \* "作成月"
K_sakusei_hi == "sakusei_hi"                            \* "作成日"
K_sakusei_nengappi == "sakusei_nengappi"                \* "作成年月日"
K_hizuke == "hizuke"                                    \* "日付"
K_jisshibi == "jisshibi"                                \* "実施日"
K_kaisaibi_reiwa == "kaisaibi_reiwa"                    \* "開催日（令和〇年〇月〇日）"
K_kaisai_basho == "kaisai_basho"                        \* "開催場所"
K_kaisai_jikan == "kaisai_jikan"                        \* "開催時間"
K_kaigi_shussekisha == "kaigi_shussekisha"              \* "会議出席者"
K_riyousha_sama == "riyousha_sama"                      \* "利用者様"
K_service_kanri_sekininsha == "service_kanri_sekininsha" \* "サービス管理責任者"
K_riyoushamei == "riyoushamei"                          \* "利用者名"
K_sheet_name == "_sheet_name"

\* The characters "年", "月", "日" and the era name "令和" (two characters)
NEN == "nen"
GATSU == "gatsu"
NICHI == "nichi"
REIWA == <<"rei", "wa">>

\* The seven keys the manual date writes (lines 443-451)
DateKeys ==
    {K_sakusei_nen_seireki, K_sakusei_tsuki, K_sakusei_hi, K_sakusei_nengappi,
     K_hizuke, K_jisshibi, K_kaisaibi_reiwa}

-----------------------------------------------------------------------------
(* datetime.datetime.strptime(date, "%Y-%m-%d") *)

ValueError == [ok |-> FALSE]

IsLeap(y) == (y % 4 = 0 /\ y % 100 # 0) \/ y % 400 = 0

DaysInMonth(y, m) ==
    IF m = 2 THEN (IF IsLeap(y) THEN 29 ELSE 28)
    ELSE IF m \in {4, 6, 9, 11} THEN 30 ELSE 31

\* The directive %m at position p, followed by the literal "-": the number of
\* characters it takes (0: no match).  Its alternatives are 1[0-2], 0[1-9], [1-9].
MonthWidth(s, p) ==
    LET n == Len(s)
        two == /\ n >= p + 2
               /\ \/ s[p] = "1" /\ s[p + 1] \in {"0", "1", "2"}
                  \/ s[p] = "0" /\ IsDigit(s[p + 1]) /\ s[p + 1] # "0"
               /\ s[p + 2] = "-"
        one == /\ n >= p + 1
               /\ IsDigit(s[p]) /\ s[p] # "0"
               /\ s[p + 1] = "-"
    IN  IF two THEN 2 ELSE IF one THEN 1 ELSE 0

\* The directive %d at position p, the last of the format: the characters the
\* first matching alternative of 3[01], [12]\d, 0[1-9], [1-9], " "[1-9] takes.
DayWidth(s, p) ==
    LET n == Len(s)
        at(i) == IF i <= n THEN s[i] ELSE "eos"
    IN  IF at(p) = "3" /\ at(p + 1) \in {"0", "1"} THEN 2
        ELSE IF at(p) \in {"1", "2"} /\ IsDigit(at(p + 1)) THEN 2
        ELSE IF at(p) = "0" /\ IsDigit(at(p + 1)) /\ at(p + 1) # "0" THEN 2
        ELSE IF IsDigit(at(p)) /\ at(p) # "0" THEN 1
        ELSE IF at(p) = " " /\ IsDigit(at(p + 1)) /\ at(p + 1) # "0" THEN 2
        ELSE 0

\* int() of a run of digits, a leading space skipped
RECURSIVE IntOf(_)
IntOf(s) ==
    IF s = <<>> THEN 0
    ELSE IF Head(s) = " " THEN IntOf(Tail(s))
    ELSE IntOf(SubSeq(s, 1, Len(s) - 1)) * 10 + DigitVal(s[Len(s)])

strptime(s) ==
    IF ~(/\ Len(s) >= 5
         /\ \A i \in 1..4 : IsDigit(s[i])
         /\ s[5] = "-") THEN ValueError
    ELSE
      LET mw == MonthWidth(s, 6)
          dp == 6 + mw + 1
          dw == IF mw = 0 THEN 0 ELSE DayWidth(s, dp)
      IN  IF mw = 0 \/ dw = 0 THEN ValueError              \* does not match format
          ELSE IF dp + dw - 1 # Len(s) THEN ValueError      \* unconverted data remains
          ELSE
            LET y == IntOf(SubSeq(s, 1, 4))
                m == IntOf(SubSeq(s, 6, 5 + mw))
                d == IntOf(SubSeq(s, dp, dp + dw - 1))
            IN  IF y < 1 \/ d > DaysInMonth(y, m) THEN ValueError  \* out of range
                ELSE [ok |-> TRUE, year |-> y, month |-> m, day |-> d]

\* dt.strftime("%Y年%m月%d日")
strftime_ymd(dt) ==
    Pad4Year(dt.year) \o <<NEN>> \o Pad2(dt.month) \o <<GATSU>> \o Pad2(dt.day) \o <<NICHI>>

-----------------------------------------------------------------------------
(* process_data, lines 426-471: the priority override *)

\* The form fields of POST /process other than template_id and files
FormFields ==
    {"text_input", "user_name", "user_name_furigana", "staff_name", "date",
     "location", "time", "count", "next_date",
     "cm_location", "cm_time", "cm_attendees", "cm_service_manager"}

\* A form with every field absent (Form(None))
EmptyForm == [f \in FormFields |-> None]

\* lines 428-430
OverrideUserName(mapping, form) ==
    IF Supplied(form.user_name)
    THEN Put(Put(mapping, K_riyousha_shimei, form.user_name), K_shimei, form.user_name)
    ELSE mapping

\* lines 432-434
OverrideFurigana(mapping, form) ==
    IF Supplied(form.user_name_furigana)
    THEN Put(Put(mapping, K_riyousha_shimei_furigana, form.user_name_furigana),
             K_shimei_no_furigana, form.user_name_furigana)
    ELSE mapping

\* lines 436-437
OverrideStaffName(mapping, form) ==
    IF Supplied(form.staff_name) THEN Put(mapping, K_sakuseisha, form.staff_name)
    ELSE mapping

\* The assignments with the era counted from 2019, the first Reiwa year
DateAssignments_EraFrom2019(mapping, dt) ==
    LET m1 == Put(mapping, K_sakusei_nen_seireki, Dec(dt.year) \o <<NEN>>)
        m2 == Put(m1, K_sakusei_tsuki, Dec(dt.month) \o <<GATSU>>)
        m3 == Put(m2, K_sakusei_hi, Dec(dt.day) \o <<NICHI>>)
        m4 == Put(m3, K_sakusei_nengappi, strftime_ymd(dt))
        m5 == Put(m4, K_hizuke, strftime_ymd(dt))
        m6 == Put(m5, K_jisshibi, strftime_ymd(dt))
    IN  Put(m6, K_kaisaibi_reiwa,
            REIWA \o Dec(dt.year - 2019) \o <<NEN>> \o Dec(dt.month) \o <<GATSU>>
                  \o Dec(dt.day) \o <<NICHI>>)

\* lines 443-451: the seven assignments, in order
DateAssignments(mapping, dt) ==
    LET m1 == Put(mapping, K_sakusei_nen_seireki, Dec(dt.year) \o <<NEN>>)
        m2 == Put(m1, K_sakusei_tsuki, Dec(dt.month) \o <<GATSU>>)
        m3 == Put(m2, K_sakusei_hi, Dec(dt.day) \o <<NICHI>>)
        m4 == Put(m3, K_sakusei_nengappi, strftime_ymd(dt))
        m5 == Put(m4, K_hizuke, strftime_ymd(dt))
        m6 == Put(m5, K_jisshibi, strftime_ymd(dt))
    IN  Put(m6, K_kaisaibi_reiwa,
            REIWA \o Dec(dt.year - 2018) \o <<NEN>> \o Dec(dt.month) \o <<GATSU>>
                  \o Dec(dt.day) \o <<NICHI>>)

\* The date block without its except clause: the error leaves the block
ExceptValueError_Propagates(mapping) == [raised |-> TRUE, mapping |-> mapping]

\* lines 452-453, "except ValueError: pass": the error goes no further and the
\* mapping is as it was when strptime raised
ExceptValueError(mapping) == [raised |-> FALSE, mapping |-> mapping]

\* lines 439-453: strptime gets the date as typed, not stripped, and is the
\* first statement of the try block
OverrideDate(mapping, form) ==
    IF Supplied(form.date)
    THEN LET dt == strptime(form.date)
         IN  IF dt.ok THEN [raised |-> FALSE, mapping |-> DateAssignments(mapping, dt)]
             ELSE ExceptValueError(mapping)
    ELSE [raised |-> FALSE, mapping |-> mapping]

\* lines 455-463
OverrideCasemeeting(mapping, form) ==
    LET m1 == IF Supplied(form.cm_location)
              THEN Put(mapping, K_kaisai_basho, form.cm_location) ELSE mapping
        m2 == IF Supplied(form.cm_time)
              THEN Put(m1, K_kaisai_jikan, form.cm_time) ELSE m1
    IN  IF Supplied(form.cm_attendees)
        THEN Put(m2, K_kaigi_shussekisha, form.cm_attendees) ELSE m2

\* The override without the casemeeting alias of the user name
OverrideUserSama_Skipped(mapping, form) == mapping

\* lines 465-467
OverrideUserSama(mapping, form) ==
    IF Supplied(form.user_name) THEN Put(mapping, K_riyousha_sama, form.user_name)
    ELSE mapping

\* lines 469-470
OverrideServiceManager(mapping, form) ==
    IF Supplied(form.cm_service_manager)
    THEN Put(mapping, K_service_kanri_sekininsha, form.cm_service_manager)
    ELSE mapping

\* lines 426-471, in order.  location, time, count and next_date are read
\* nowhere in this block.  An error that leaves the date block skips the rest
\* (it is caught at line 473).
PriorityOverride(mapping, form) ==
    LET a == OverrideStaffName(
               OverrideFurigana(OverrideUserName(mapping, form), form), form)
        b == OverrideDate(a, form)
    IN  IF b.raised THEN b
        ELSE [raised |-> FALSE,
              mapping |-> OverrideServiceManager(
                            OverrideUserSama(
                              OverrideCasemeeting(b.mapping, form), form), form)]

-----------------------------------------------------------------------------
(* fill_excel, lines 140-214.  A workbook is its sheet names, its active     *)
(* sheet and its cells; a cell is a value and an alignment.  A config value  *)
(* "Sheet!Cell" is held as its "!"-separated parts, <<"Sheet", "Cell">>.     *)

\* The character "【"
LBRACKET == "lb"

\* The coordinates a sheet accepts; any other text raises in the assignment
Coords == {"A1", "B2"}

\* Python's True and False as cell attributes, values of the kind of None
True == <<"True">>
False == <<"False">>

\* openpyxl's Alignment() with no arguments
DefaultAlignment ==
    [horizontal |-> None, vertical |-> None, text_rotation |-> 0,
     wrap_text |-> None, shrink_to_fit |-> None, indent |-> 0]

\* lines 183-190
VerticalAlignment(current_align) ==
    [horizontal |-> <<"center">>, vertical |-> <<"center">>, text_rotation |-> 255,
     wrap_text |-> True, shrink_to_fit |-> current_align.shrink_to_fit,
     indent |-> current_align.indent]

\* lines 196-202: `x or 'left'` keeps a truthy x
WrapAlignment(current_align) ==
    [horizontal |-> IF Truthy(current_align.horizontal)
                    THEN current_align.horizontal ELSE <<"left">>,
     vertical |-> IF Truthy(current_align.vertical)
                  THEN current_align.vertical ELSE <<"top">>,
     text_rotation |-> 0,
     wrap_text |-> True, shrink_to_fit |-> False,
     indent |-> current_align.indent]

\* The write whose wrap rule starts at 50 characters
WriteCell_WrapsFromFifty(cell, value) ==
    LET written == [cell EXCEPT !.value = value]
    IN  IF value # <<>> /\ value[1] = LBRACKET /\ Len(value) < 10
        THEN [written EXCEPT !.alignment = VerticalAlignment(cell.alignment)]
        ELSE IF Len(value) >= 50
        THEN [written EXCEPT !.alignment = WrapAlignment(cell.alignment)]
        ELSE written

\* lines 177-203: the assignment and the two formatting rules, for a str value
WriteCell(cell, value) ==
    LET written == [cell EXCEPT !.value = value]
    IN  IF value # <<>> /\ value[1] = LBRACKET /\ Len(value) < 10
        THEN [written EXCEPT !.alignment = VerticalAlignment(cell.alignment)]
        ELSE IF Len(value) > 50
        THEN [written EXCEPT !.alignment = WrapAlignment(cell.alignment)]
        ELSE written

\* lines 145-149: the sheet named by "_sheet_name" when the workbook has it,
\* the active sheet otherwise
DefaultSheet(wb, mapping) ==
    LET default_sheet_name ==
            IF Has(mapping, K_sheet_name) THEN Get(mapping, K_sheet_name) ELSE None
    IN  IF Truthy(default_sheet_name)
           /\ \E i \in 1..Len(wb.sheetnames) : wb.sheetnames[i] = default_sheet_name
        THEN default_sheet_name ELSE wb.active

\* The target that ignores the sheet of a "Sheet!Cell" config value
ResolveTarget_IgnoresSheet(wb, default_sheet, config_value) ==
    [sheet |-> default_sheet, coord |-> config_value[Len(config_value)]]

\* lines 159-170: the target sheet and coordinate of a config value.  A value
\* with "!" that is not "KnownSheet!Cell" keeps the whole text as coordinate.
ResolveTarget(wb, default_sheet, config_value) ==
    IF Len(config_value) = 2
       /\ \E i \in 1..Len(wb.sheetnames) : wb.sheetnames[i] = <<config_value[1]>>
    THEN [sheet |-> <<config_value[1]>>, coord |-> config_value[2]]
    ELSE IF Len(config_value) = 1
    THEN [sheet |-> default_sheet, coord |-> config_value[1]]
    ELSE [sheet |-> default_sheet, coord |-> "not a coordinate"]

\* lines 155-205, one (label, value) of mapping.items()
FillItem(wb, default_sheet, config_mapping, label, value) ==
    IF label \notin DOMAIN config_mapping THEN wb             \* line 156
    ELSE
      LET t == ResolveTarget(wb, default_sheet, config_mapping[label])
      IN  IF value = None THEN wb                             \* lines 174-175
          ELSE IF t.coord \notin Coords THEN wb               \* lines 204-205
          ELSE [wb EXCEPT !.cells[<<t.sheet, t.coord>>] =
                              WriteCell(wb.cells[<<t.sheet, t.coord>>], value)]

RECURSIVE FillItems(_, _, _, _)
FillItems(wb, default_sheet, config_mapping, items) ==
    IF items = <<>> THEN wb
    ELSE FillItems(FillItem(wb, default_sheet, config_mapping,
                            Head(items)[1], Head(items)[2]),
                   default_sheet, config_mapping, Tail(items))

\* lines 142-205: the workbook fill_excel saves
FilledWorkbook(template, mapping, config_mapping) ==
    FillItems(template, DefaultSheet(template, mapping), config_mapping,
              Without(mapping, K_sheet_name))

\* line 210: a name no other call gets (uuid4), here numbered by `fresh`
UuidName(fresh) == <<"processed_">> \o DecNat(fresh) \o <<".", "x", "l", "s", "x">>

\* lines 207-214: the file name the workbook is saved under and returned
OutputFilename(output_name, fresh) ==
    IF Truthy(output_name) THEN output_name ELSE UuidName(fresh)

\* line 213: the writer stores a cell whose value is "" as an empty cell
SavedCell(cell) == IF cell.value = <<>> THEN [cell EXCEPT !.value = None] ELSE cell

SavedWorkbook(wb) == [wb EXCEPT !.cells = [c \in DOMAIN wb.cells |-> SavedCell(wb.cells[c])]]

\* lines 212-213: wb.save replaces a file of the same name.  `owner` records
\* the request that wrote the file.
Save(dir, filename, wb, owner) ==
    [n \in DOMAIN dir \cup {filename} |->
        IF n = filename THEN [owner |-> owner, wb |-> SavedWorkbook(wb)] ELSE dir[n]]

-----------------------------------------------------------------------------
(* The inputs fill_excel is checked on *)

\* At most this many fields in the mapping handed to fill_excel
MaxItems == 2

SheetOne == <<"Sheet1">>
SheetTwo == <<"Sheet2">>

AllCells == {SheetOne, SheetTwo} \X Coords

StyledAlignment ==
    [horizontal |-> <<"right">>, vertical |-> <<"bottom">>, text_rotation |-> 0,
     wrap_text |-> None, shrink_to_fit |-> True, indent |-> 1]

\* A template with empty default cells, and one whose cells hold a default
\* text and a style
TemplateWorkbooks ==
    {[sheetnames |-> <<SheetOne, SheetTwo>>, active |-> SheetOne,
      cells |-> [c \in AllCells |-> cell]] :
        cell \in {[value |-> None, alignment |-> DefaultAlignment],
                  [value |-> <<"T">>, alignment |-> StyledAlignment]}}

\* Declared fields f1, f2, f3; f3 shares f1's cell, has its own, names a sheet
\* the workbook lacks, or has two "!"
FillConfigs ==
    {[f1 |-> <<"A1">>, f2 |-> <<"Sheet2", "B2">>, f3 |-> x] :
        x \in {<<"A1">>, <<"B2">>, <<"Nope", "A1">>, <<"Sheet2", "A1", "B2">>}}

\* "u" is declared by no config
FillLabels == {"f1", "f2", "f3", "u"}

RECURSIVE Repeat(_, _)
Repeat(c, n) == IF n = 0 THEN <<>> ELSE <<c>> \o Repeat(c, n - 1)

\* null, "", a short text, a status tag such as "【達成】", a long text; a text
\* of exactly 50 characters, and "【" texts of 10 and of 51 characters
FillValues ==
    {None, <<>>, <<"v">>, <<LBRACKET, "t", "a", "rb">>, Repeat("x", 51),
     Repeat("x", 50), <<LBRACKET>> \o Repeat("x", 9), <<LBRACKET>> \o Repeat("x", 50)}

DistinctLabels(items) ==
    \A i, j \in 1..Len(items) : i # j => items[i][1] # items[j][1]

ItemSeqs ==
    UNION {{items \in [1..k -> FillLabels \X FillValues] : DistinctLabels(items)} :
             k \in 0..MaxItems}

\* Line 481: the "_sheet_name" entry, last in the mapping, or none
SheetEntries ==
    {<<>>} \cup {<<<<K_sheet_name, v>>>> : v \in {None, SheetTwo, <<"Nope">>}}

FillInit ==
    fx \in {[pc |-> "start", template |-> t, config_mapping |-> c] :
              t \in TemplateWorkbooks, c \in FillConfigs}

\* fill_excel applied to the template, the config and a drawn mapping
Fill ==
    /\ fx.pc = "start"
    /\ \E items \in ItemSeqs, sheet \in SheetEntries, output_name \in {None, <<"o", "u", "t", ".", "x", "l", "s", "x">>} :
         LET mapping == items \o sheet
             wb == FilledWorkbook(fx.template, mapping, fx.config_mapping)
             filename == OutputFilename(output_name, 0)
         IN  /\ fx' = [pc |-> "filled", template |-> fx.template,
                       config_mapping |-> fx.config_mapping, mapping |-> mapping,
                       returned |-> filename]
             /\ outputDir' = Save(outputDir, filename, wb, 0)
    /\ UNCHANGED <<client, requests, tempDir, downloads, debugFile, rv>>

-----------------------------------------------------------------------------
(* process_data up to the AI call, lines 349-424 *)

\* mapping_config.json as loaded at lines 86-87: two templates.  The file is
\* not part of the sources; the entries have the fields the code reads.
TEMPLATE_CONFIG ==
    [monitoring_final |->
        [name |-> <<"M">>, filename |-> <<"template/monitoring.xlsx">>,
         sheet_name |-> <<"Sheet1">>,
         mapping |-> [riyousha_shimei |-> <<"A1">>, sakuseisha |-> <<"B2">>]],
     casemeeting |->
        [name |-> <<"C">>, filename |-> <<"template/casemeeting.xlsx">>,
         sheet_name |-> <<"Sheet2">>,
         mapping |-> [riyousha_sama |-> <<"A1">>, kaisai_basho |-> <<"Sheet1", "B2">>]]]

\* lines 359-371: the labels of the manual fields that are truthy, in order.
\* user_name_furigana is not among them.
ManualInfoFields ==
    <<"user_name", "staff_name", "date", "location", "time", "count", "next_date",
      "cm_service_manager", "cm_location", "cm_time", "cm_attendees">>

manual_info_list(form) ==
    LET given(f) == Truthy(form[f]) IN SelectSeq(ManualInfoFields, given)

\* lines 373-380, as a condition: bool(full_text_input)
HasFullTextInput(form) == Truthy(form.text_input) \/ manual_info_list(form) # <<>>

\* lines 401-409: the uploads that are saved, those with a file name
RECURSIVE NamedFiles(_)
NamedFiles(files) ==
    IF files = None \/ files = <<>> THEN <<>>
    ELSE IF Truthy(Head(files)) THEN <<Head(files)>> \o NamedFiles(Tail(files))
    ELSE NamedFiles(Tail(files))

\* line 406: TEMP_DIR/<uuid4>_<filename>; the uuid is the request and the
\* position of the upload
SavedPaths(r, files) ==
    LET named == NamedFiles(files)
    IN  [i \in 1..Len(named) |-> <<"temp", r, i, named[i]>>]

Range(seq) == {seq[i] : i \in 1..Len(seq)}

\* The cleanup that removes nothing
cleanup_files_RemovesNothing(names, file_paths) == names

\* lines 59-67, cleanup_files: what is left of a directory's names
cleanup_files(names, file_paths) == names \ Range(file_paths)

\* lines 222-318, call_gemini: `answer` is what the service does when it is
\* called.  The debug file is written before the text is parsed (lines 311-314).
call_gemini(answer) ==
    IF client = None                                                  \* line 223
    THEN [calls |-> 0, failed |-> TRUE, wrote_debug |-> FALSE, mapping |-> <<>>]
    ELSE IF answer.kind = "raises"                                    \* line 300
    THEN [calls |-> 1, failed |-> TRUE, wrote_debug |-> FALSE, mapping |-> <<>>]
    ELSE IF answer.kind = "not json"                                  \* line 318
    THEN [calls |-> 1, failed |-> TRUE, wrote_debug |-> TRUE, mapping |-> <<>>]
    ELSE [calls |-> 1, failed |-> FALSE, wrote_debug |-> TRUE, mapping |-> answer.mapping]

-----------------------------------------------------------------------------
(* process_data after the override, lines 477-510 *)

\* "名称未設定"
UNNAMED == <<"mei", "shou", "mi", "setsu", "tei">>

\* The characters of the model for which str.isalnum() is false
NotAlnum == {" ", "zsp", "_", "-", "!", "/", ".", LBRACKET, "rb"}

\* lines 484-491
user_name_val(mapping) ==
    LET possible_keys == <<K_shimei, K_riyoushamei, K_riyousha_sama, K_riyousha_shimei>>
        found(k) == Has(mapping, k) /\ Truthy(Get(mapping, k))
        hits == SelectSeq(possible_keys, found)
        first == IF hits # <<>> THEN Get(mapping, Head(hits)) ELSE UNNAMED
    IN  IF first = UNNAMED /\ Has(mapping, K_shimei_no_furigana)
        THEN Get(mapping, K_shimei_no_furigana) ELSE first

\* line 499
safe_user_name(name) ==
    LET safe(c) == c \notin NotAlnum \/ c \in {" ", "zsp", "_", "-"}
    IN  SelectSeq(name, safe)

\* line 494, datetime.now().strftime("%y.%m.%d") on day `day` of the month
date_str(day) == <<"2", "6", ".", "1", "1", ".">> \o Pad2(day)

\* line 500
custom_filename(day, template_name, name) ==
    date_str(day) \o <<"_">> \o template_name \o <<LBRACKET>> \o safe_user_name(name)
                  \o <<"rb", ".", "x", "l", "s", "x">>

\* The workbook every template file of the model holds
PipelineTemplate ==
    [sheetnames |-> <<<<"Sheet1">>, <<"Sheet2">>>>, active |-> <<"Sheet1">>,
     cells |-> [c \in {<<"Sheet1">>, <<"Sheet2">>} \X Coords |->
                  [value |-> <<"T">>, alignment |-> DefaultAlignment]]]

\* What one run of the handler leaves behind
NoOutcome ==
    [status |-> 0, detail |-> "", file_paths |-> <<>>, ai_calls |-> 0,
     ai_failed |-> FALSE, wrote_debug |-> FALSE, fill_calls |-> 0,
     filename |-> None, wb |-> None, day |-> 0, background |-> FALSE]

\* lines 473-475: every exception of the try block, the HTTPException of line
\* 412 included, is answered as 500
ExceptAtLine473(outcome, exc_status) ==
    [outcome EXCEPT !.status = 500, !.detail = "AI Processing failed"]

\* lines 504-505
ExceptAtLine504(outcome) ==
    [outcome EXCEPT !.status = 500, !.detail = "Excel generation failed"]

\* lines 479-510
ExcelStep(outcome, template, mapping, save_ok, day) ==
    LET with_sheet == IF mapping # <<>>                                \* lines 480-481
                      THEN Put(mapping, K_sheet_name, template.sheet_name)
                      ELSE mapping
        name == user_name_val(with_sheet)
    IN  IF name = None THEN ExceptAtLine504(outcome)                   \* line 499 raises
        ELSE IF ~save_ok                                               \* line 213 raises
        THEN ExceptAtLine504([outcome EXCEPT !.fill_calls = 1, !.day = day])
        ELSE [outcome EXCEPT
                !.status = 200, !.fill_calls = 1, !.day = day,
                !.filename = custom_filename(day, template.name, name),
                !.wb = FilledWorkbook(PipelineTemplate, with_sheet, template.mapping),
                !.background = TRUE]                                   \* line 508

\* The AI step that goes on with an empty mapping when the call failed
AIStep_GoesOnAfterFailure(outcome, template, form, answer, save_ok, day) ==
    LET g == call_gemini(answer)
        called == [outcome EXCEPT !.ai_calls = g.calls, !.ai_failed = g.failed,
                                  !.wrote_debug = g.wrote_debug]
    IN  ExcelStep(called, template, PriorityOverride(g.mapping, form).mapping,
                  save_ok, day)

\* lines 424-475: the AI call (never repeated) and the override
AIStep(outcome, template, form, answer, save_ok, day) ==
    LET g == call_gemini(answer)
        called == [outcome EXCEPT !.ai_calls = g.calls, !.ai_failed = g.failed,
                                  !.wrote_debug = g.wrote_debug]
    IN  IF g.failed THEN ExceptAtLine473(called, 500)
        ELSE LET po == PriorityOverride(g.mapping, form)
             IN  IF po.raised THEN ExceptAtLine473(called, 500)
                 ELSE ExcelStep(called, template, po.mapping, save_ok, day)

\* The handler that saves the uploads before it looks at the template id
process_data_SavesUploadsFirst(r, template_id, form, files, template_exists, answer, save_ok, day) ==
    LET saved == [NoOutcome EXCEPT !.file_paths = SavedPaths(r, files)]
    IN  IF template_id \notin DOMAIN TEMPLATE_CONFIG
        THEN [saved EXCEPT !.status = 400, !.detail = "Invalid template ID"]
        ELSE IF ~template_exists
        THEN [NoOutcome EXCEPT !.status = 500, !.detail = "Template file not found"]
        ELSE IF ~HasFullTextInput(form) /\ saved.file_paths = <<>>
             THEN ExceptAtLine473(saved, 400)
             ELSE AIStep(saved, TEMPLATE_CONFIG[template_id], form, answer, save_ok, day)

\* lines 349-510, the whole handler for request r
process_data(r, template_id, form, files, template_exists, answer, save_ok, day) ==
    IF template_id \notin DOMAIN TEMPLATE_CONFIG                       \* lines 349-350
    THEN [NoOutcome EXCEPT !.status = 400, !.detail = "Invalid template ID"]
    ELSE IF ~template_exists                                           \* lines 386-394
    THEN [NoOutcome EXCEPT !.status = 500, !.detail = "Template file not found"]
    ELSE LET saved == [NoOutcome EXCEPT !.file_paths = SavedPaths(r, files)]
         IN  IF ~HasFullTextInput(form) /\ saved.file_paths = <<>>     \* lines 411-412
             THEN ExceptAtLine473(saved, 400)
             ELSE AIStep(saved, TEMPLATE_CONFIG[template_id], form, answer, save_ok, day)

-----------------------------------------------------------------------------
(* The web boundary: POST /process, GET /download and their background tasks *)

\* Requests and downloads of one run, days the run spans, uploads per request
MaxRequests == 2
MaxDownloads == 2
MaxDay == 2
MaxFiles == 1

PipelineTemplateIds == {"monitoring_final", "casemeeting", "bogus"}

\* No field; a free text; a user name; a user name with a character the file
\* name drops; a furigana only
PipelineForms ==
    {EmptyForm,
     [EmptyForm EXCEPT !.text_input = <<"m", "e", "m", "o">>],
     [EmptyForm EXCEPT !.user_name = <<"A">>],
     [EmptyForm EXCEPT !.user_name = <<"A", "!">>],
     [EmptyForm EXCEPT !.user_name_furigana = <<"F">>]}

\* An upload is its file name; "" is the empty part a browser sends
UploadNames == {<<>>, <<"a", ".", "m", "p", "3">>}

UploadLists == {None} \cup UNION {[1..k -> UploadNames] : k \in 1..MaxFiles}

\* What the AI service does when called
Answers ==
    {[kind |-> "raises"], [kind |-> "not json"]}
    \cup {[kind |-> "json", mapping |-> m] :
            m \in {<<>>, <<<<K_shimei, <<"A">>>>>>,
                   <<<<K_shimei, None>>, <<K_shimei_no_furigana, None>>>>}}

\* What the file system does to the request: nothing, the template workbook
\* is not at either path (line 394), wb.save raises (line 213)
Faults == {"none", "template file missing", "save fails"}

NewRequest == [pc |-> "new"]

\* The claim's "no input": no free text, no manual field, no named upload
NothingSupplied(form, files) ==
    /\ \A f \in FormFields : ~Truthy(form[f])
    /\ NamedFiles(files) = <<>>

\* The latest day a request has read from the clock
LastDay ==
    LET days == {requests[r].day : r \in {q \in 1..MaxRequests : requests[q].pc # "new"}}
                \cup {1}
    IN  CHOOSE d \in days : \A e \in days : e <= d

\* POST /process, lines 329-510: the handler has no await, so it runs to its
\* response in one step; requests are numbered in the order they arrive.
Process(r) ==
    /\ requests[r].pc = "new"
    /\ IF r = 1 THEN TRUE ELSE requests[r - 1].pc # "new"
    /\ \E template_id \in PipelineTemplateIds, form \in PipelineForms,
          files \in UploadLists, fault \in Faults, answer \in Answers,
          day \in LastDay..MaxDay :
         \E o \in {process_data(r, template_id, form, files,
                                fault # "template file missing", answer,
                                fault # "save fails", day)} :
             /\ requests' = [requests EXCEPT ![r] =
                   [pc |-> "sent", template_id |-> template_id,
                    nothing_supplied |-> NothingSupplied(form, files),
                    status |-> o.status, detail |-> o.detail,
                    file_paths |-> o.file_paths, ai_calls |-> o.ai_calls,
                    ai_failed |-> o.ai_failed, fill_calls |-> o.fill_calls,
                    filename |-> o.filename, day |-> IF o.day = 0 THEN LastDay ELSE o.day,
                    bg |-> IF o.background THEN "pending" ELSE "none"]]
             /\ tempDir' = tempDir \cup Range(o.file_paths)
             /\ outputDir' = IF o.status = 200
                             THEN Save(outputDir, o.filename, o.wb, r) ELSE outputDir
             /\ debugFile' = IF o.wrote_debug THEN r ELSE debugFile
    /\ UNCHANGED <<client, downloads, rv, fx>>

\* line 508: cleanup_files(file_paths), run after the response was sent
ProcessCleanup(r) ==
    /\ requests[r].pc = "sent"
    /\ requests[r].bg = "pending"
    /\ tempDir' = cleanup_files(tempDir, requests[r].file_paths)
    /\ requests' = [requests EXCEPT ![r].bg = "done"]
    /\ UNCHANGED <<client, outputDir, downloads, debugFile, rv, fx>>

\* A name no request was given
NoSuchFile == <<"n", "o", ".", "x", "l", "s", "x">>

\* The number of POST /process requests answered so far
AnsweredSoFar == Cardinality({q \in 1..MaxRequests : requests[q].pc = "sent"})

\* The downloads whose cleanup has run
CleanedSoFar == {i \in 1..Len(downloads) : downloads[i].bg = "done"}

\* GET /download/{filename}, lines 512-521, asked by the client of request r
\* (r = 0: someone asking for NoSuchFile).  `answered` and `cleaned` record
\* what had happened before the download was handled.
Download(r) ==
    /\ Len(downloads) < MaxDownloads
    /\ IF r = 0 THEN TRUE ELSE requests[r].pc = "sent" /\ requests[r].status = 200
    /\ LET filename == IF r = 0 THEN NoSuchFile ELSE requests[r].filename
           asked == [for |-> r, filename |-> filename, answered |-> AnsweredSoFar,
                     cleaned |-> CleanedSoFar, cleaned_after |-> 0,
                     served |-> 0, removed |-> 0]
       IN  downloads' = Append(downloads,
             IF filename \notin DOMAIN outputDir                       \* lines 515-516
             THEN asked @@ [status |-> 404, bg |-> "none"]
             ELSE [asked EXCEPT !.served = outputDir[filename].owner]
                  @@ [status |-> 200, bg |-> "pending"])               \* line 519
    /\ UNCHANGED <<client, requests, tempDir, outputDir, debugFile, rv, fx>>

\* line 519: cleanup_files([file_path]), run after the file was served
DownloadCleanup(i) ==
    /\ i \in 1..Len(downloads)
    /\ downloads[i].bg = "pending"
    /\ LET filename == downloads[i].filename
       IN  /\ outputDir' = [n \in cleanup_files(DOMAIN outputDir, <<filename>>) |->
                              outputDir[n]]
           /\ downloads' = [downloads EXCEPT
                  ![i].bg = "done",
                  ![i].cleaned_after = AnsweredSoFar,
                  ![i].removed = IF filename \in DOMAIN outputDir
                                 THEN outputDir[filename].owner ELSE 0]
    /\ UNCHANGED <<client, requests, tempDir, debugFile, rv, fx>>

Init ==
    /\ client \in {None, <<"client">>}        \* lines 25-30
    /\ requests = [r \in 1..MaxRequests |-> NewRequest]
    /\ tempDir = {}
    /\ outputDir = <<>>
    /\ downloads = <<>>
    /\ debugFile = 0
    /\ rv = [pc |-> "off"]
    /\ fx = [pc |-> "off"]

Next ==
    \/ \E r \in 1..MaxRequests : Process(r)
    \/ \E r \in 1..MaxRequests : ProcessCleanup(r)
    \/ \E r \in 0..MaxRequests : Download(r)
    \/ \E i \in 1..MaxDownloads : DownloadCleanup(i)

Spec == Init /\ [][Next]_vars

-----------------------------------------------------------------------------
(* The inputs the override is checked on *)

\* At most this many of the twelve manual fields are supplied in one form
MaxSupplied == 2

ManualFields == FormFields \ {"text_input"}

\* What a supplied manual field other than the date holds: whitespace only,
\* a value, a value with surrounding whitespace
ManualValues == {<<" ">>, <<"B">>, <<" ", "C", "zsp">>}

\* Every key the override block or the file name reads or writes
AllKeys ==
    <<K_shimei, K_riyousha_shimei, K_riyousha_sama, K_riyoushamei,
      K_riyousha_shimei_furigana, K_shimei_no_furigana, K_sakuseisha,
      K_sakusei_nen_seireki, K_sakusei_tsuki, K_sakusei_hi, K_sakusei_nengappi,
      K_hizuke, K_jisshibi, K_kaisaibi_reiwa, K_kaisai_basho, K_kaisai_jikan,
      K_kaigi_shussekisha, K_service_kanri_sekininsha>>

\* The AI answered every key with v
FullOf(v) == [i \in 1..Len(AllKeys) |-> <<AllKeys[i], v>>]

\* What json.loads returned: {}, every key a string, every key null, one name
AIMappings ==
    {<<>>, FullOf(<<"X">>), FullOf(None), <<<<K_shimei, <<"A">>>>>>}

TestYears == {2024, 2026}
TestMonths == {0, 2, 5, 11, 13}
TestDays == {0, 5, 20, 29, 31, 32}

YearText(y) == IF y = 0 THEN <<"0", "0", "0", "0">> ELSE DecNat(y)

\* A number as typed: zero-padded ("p"), bare ("b") or space-padded ("s")
Typed(v, style) ==
    IF style = "p" \/ v >= 10 THEN Pad2(v)
    ELSE IF style = "b" THEN DecNat(v) ELSE <<" ">> \o DecNat(v)

InCalendar(y, m, d) ==
    y >= 1 /\ m \in 1..12 /\ d >= 1 /\ d <= DaysInMonth(y, m)

\* A typed date: its text, the numbers typed and what it is: "valid" (a
\* zero-padded YYYY-MM-DD calendar date), "lenient" (a calendar date typed
\* without zero padding) or "invalid" (no calendar date).
TypedDate(y, m, ms, d, ds) ==
    [text |-> YearText(y) \o <<"-">> \o Typed(m, ms) \o <<"-">> \o Typed(d, ds),
     ymd |-> <<y, m, d>>,
     kind |-> IF ~InCalendar(y, m, d) THEN "invalid"
              ELSE IF Len(Typed(m, ms)) = 2 /\ Typed(m, ms)[1] # " "
                      /\ Len(Typed(d, ds)) = 2 /\ Typed(d, ds)[1] # " "
                   THEN "valid"
              ELSE IF Typed(m, ms)[1] = " " THEN "invalid" ELSE "lenient"]

Junk(text) == [text |-> text, ymd |-> <<>>, kind |-> "invalid"]

JunkDates ==
    {Junk(<<"a", "b", "c">>), Junk(<<" ">>),
     Junk(<<" ", "2", "0", "2", "6", "-", "0", "5", "-", "2", "0">>),
     Junk(<<"2", "0", "2", "6", "-", "0", "5", "-", "2", "0", " ">>),
     Junk(<<"2", "0", "2", "6", "/", "0", "5", "/", "2", "0">>),
     Junk(<<"2", "0", "2", "6", "0", "5", "2", "0">>),
     Junk(<<"2", "0", "2", "6", "-", "0", "5">>),
     Junk(<<"2", "6", "-", "0", "5", "-", "2", "0">>),
     Junk(<<"2", "0", "2", "6", "-", "0", "5", "-", "2", "0", "1">>)}

\* Years that give the era year 0, a negative era year, and the year 0000
EdgeDates ==
    {TypedDate(2018, 5, "p", 20, "p"), TypedDate(2017, 11, "p", 5, "p"),
     TypedDate(2019, 2, "p", 29, "p"), TypedDate(0, 5, "p", 20, "p"),
     TypedDate(2026, 5, "s", 20, "p")}

DateCases ==
    {TypedDate(y, m, st[1], d, st[2]) :
        y \in TestYears, m \in TestMonths, d \in TestDays,
        st \in {<<"p", "p">>, <<"b", "b">>, <<"p", "s">>}}
    \cup EdgeDates \cup JunkDates

\* The date field absent
NoDate == [text |-> None, ymd |-> <<>>, kind |-> "absent"]

FormOf(S, g, dc) ==
    [k \in FormFields |->
        IF k = "date" THEN dc.text ELSE IF k \in S THEN g[k] ELSE None]

Subsets(F, n) == {T \in SUBSET F : Cardinality(T) <= n}

FormsOver(F, n, dates) ==
    UNION {UNION {{<<FormOf(S, g, dc), dc>> : g \in [S -> ManualValues]} :
                    dc \in dates} :
             S \in Subsets(F, n)}

\* <<form, date case>>: no date and at most MaxSupplied other manual fields,
\* or a date and at most one other manual field
ResolverInputs ==
    FormsOver(ManualFields \ {"date"}, MaxSupplied, {NoDate})
    \cup FormsOver(ManualFields \ {"date"}, 1, DateCases)

RvOff == [pc |-> "off"]

\* The mapping call_gemini returned
ResolverInit == rv \in {[pc |-> "start", extracted |-> e] : e \in AIMappings}

\* lines 426-471 applied to the mapping and a drawn form
Resolve ==
    /\ rv.pc = "start"
    /\ \E in \in ResolverInputs :
         LET r == PriorityOverride(rv.extracted, in[1])
         IN  rv' = [pc |-> IF r.raised THEN "failed" ELSE "resolved",
                    extracted |-> rv.extracted, form |-> in[1], dateCase |-> in[2],
                    resolved |-> r.mapping]
    /\ UNCHANGED <<client, requests, tempDir, outputDir, downloads, debugFile, fx>>

FxOff == [pc |-> "off"]

InitResolve ==
    /\ ResolverInit
    /\ client = None
    /\ requests = <<>>
    /\ tempDir = {}
    /\ outputDir = <<>>
    /\ downloads = <<>>
    /\ debugFile = 0
    /\ fx = FxOff

NextResolve == Resolve

SpecResolve == InitResolve /\ [][NextResolve]_vars

InitFill ==
    /\ FillInit
    /\ client = None
    /\ requests = <<>>
    /\ tempDir = {}
    /\ outputDir = <<>>
    /\ downloads = <<>>
    /\ debugFile = 0
    /\ rv = RvOff

NextFill == Fill

SpecFill == InitFill /\ [][NextFill]_vars

-----------------------------------------------------------------------------
(* Claims about the web boundary, checked under Spec *)

Answered == {r \in 1..MaxRequests : requests[r].pc = "sent"}

\* C1: a request with a template of the registry and no free text, no manual
\* field and no named upload is answered 400, and the AI client is not called
\* for it (the template workbook being on disk).
C1_NoInputIsAnswered400 ==
    \A r \in Answered :
      (/\ requests[r].template_id \in DOMAIN TEMPLATE_CONFIG
       /\ requests[r].nothing_supplied
       /\ requests[r].detail # "Template file not found")
        => requests[r].status = 400 /\ requests[r].ai_calls = 0

\* C2: two requests that both produced a workbook were given different file
\* names, and a download asked by the client of one is served, and removes,
\* only that request's workbook.
C2_OutputNamesNeverCollide ==
    /\ \A r1, r2 \in Answered :
         (r1 # r2 /\ requests[r1].status = 200 /\ requests[r2].status = 200)
           => requests[r1].filename # requests[r2].filename
    /\ \A i \in 1..Len(downloads) :
         (downloads[i].for # 0 /\ downloads[i].status = 200)
           => /\ downloads[i].served = downloads[i].for
              /\ downloads[i].removed \in {0, downloads[i].for}

\* C3: once a request that saved uploads has been answered and no cleanup of
\* it is still to run, none of its temp files is in the temp directory,
\* whatever the status of the answer.
C3_TempFilesAreRemoved ==
    \A r \in Answered :
      requests[r].bg # "pending" => Range(requests[r].file_paths) \cap tempDir = {}

\* C4: a request whose AI call failed (no client, the call raised, the text
\* was no JSON) is answered 500 without fill_excel being called and without a
\* file of it in the output directory; no request calls the AI more than once.
C4_AIFailureIs500WithoutWorkbook ==
    \A r \in Answered :
      /\ requests[r].ai_calls <= 1
      /\ requests[r].ai_failed =>
           /\ requests[r].status = 500
           /\ requests[r].fill_calls = 0
           /\ requests[r].filename = None
           /\ \A n \in DOMAIN outputDir : outputDir[n].owner # r

\* The requests that wrote the name to the output directory after `n` requests
\* had been answered and before the one numbered `m + 1`
GeneratedBetween(filename, n, m) ==
    {q \in (n + 1)..m : requests[q].status = 200 /\ requests[q].filename = filename}

\* C12: a download of a name that is not in the output directory is answered
\* 404 (a name no request was given always is), one that is answered 200
\* served a file, and after its cleanup the file is gone until a request
\* writes the name again; a download handled after a served download of the
\* same name was cleaned up, with no request having written the name in
\* between, is answered 404.
C12_DownloadServesOnceThen404 ==
    \A j \in 1..Len(downloads) :
      /\ downloads[j].filename = NoSuchFile => downloads[j].status = 404
      /\ downloads[j].status \in {200, 404}
      /\ downloads[j].status = 200 => downloads[j].served # 0
      /\ (/\ downloads[j].status = 200
          /\ downloads[j].bg = "done"
          /\ GeneratedBetween(downloads[j].filename, downloads[j].cleaned_after,
                              AnsweredSoFar) = {})
           => downloads[j].filename \notin DOMAIN outputDir
      /\ \A i \in 1..(j - 1) :
           (/\ downloads[i].filename = downloads[j].filename
            /\ downloads[i].status = 200
            /\ i \in downloads[j].cleaned
            /\ GeneratedBetween(downloads[j].filename, downloads[i].cleaned_after,
                                downloads[j].answered) = {})
             => downloads[j].status = 404

\* A workbook was served and cleaned up, and the next download of its name,
\* with no request in between, was answered 404.
C12_Witness ==
    /\ Len(downloads) = 2
    /\ downloads[1].status = 200 /\ downloads[1].bg = "done"
    /\ downloads[1].for # 0
    /\ downloads[2].filename = downloads[1].filename
    /\ downloads[2].cleaned = {1}
    /\ downloads[2].answered = downloads[1].cleaned_after
    /\ downloads[2].status = 404

\* C13: a request whose template_id is no key of the registry is answered 400
\* and leaves nothing behind: no path of it in the temp directory, no call of
\* the AI client, no debug file, no fill_excel, no file name, no workbook of
\* it in the output directory, no cleanup to run.
C13_UnknownTemplateIs400WithoutEffect ==
    \A r \in Answered :
      requests[r].template_id \notin DOMAIN TEMPLATE_CONFIG =>
        /\ requests[r].status = 400
        /\ requests[r].detail = "Invalid template ID"
        /\ requests[r].file_paths = <<>>
        /\ \A path \in tempDir : path[2] # r
        /\ requests[r].ai_calls = 0 /\ ~requests[r].ai_failed
        /\ debugFile # r
        /\ requests[r].fill_calls = 0
        /\ requests[r].filename = None
        /\ \A n \in DOMAIN outputDir : outputDir[n].owner # r
        /\ requests[r].bg = "none"

\* A request with input and an unknown template id was answered 400 after a
\* request that produced a workbook from an upload: the temp directory and
\* the output directory hold the first request's files only.
C13_Witness ==
    /\ Answered = {1, 2}
    /\ requests[1].status = 200 /\ requests[1].file_paths # <<>>
    /\ requests[2].template_id = "bogus"
    /\ ~requests[2].nothing_supplied
    /\ requests[2].status = 400
    /\ tempDir = Range(requests[1].file_paths)
    /\ DOMAIN outputDir = {requests[1].filename}
    /\ debugFile = 1

\* The one call of a request with an upload failed; the other request's
\* call failed too: two 500s and an empty output directory.
C4_Witness ==
    /\ Answered = 1..MaxRequests
    /\ \A r \in Answered :
         requests[r].ai_failed /\ requests[r].ai_calls = 1 /\ requests[r].status = 500
    /\ requests[1].file_paths # <<>>
    /\ DOMAIN outputDir = {}

-----------------------------------------------------------------------------
(* Claims about the priority override, checked under SpecResolve *)

\* Key k is in both mappings with one value, or in neither
SameAt(m1, m2, k) ==
    /\ Has(m1, k) <=> Has(m2, k)
    /\ Has(m1, k) => Get(m1, k) = Get(m2, k)

HoldsAt(m, k, v) == Has(m, k) /\ Get(m, k) = v

\* The keys each manual field is claimed to overwrite
ClaimedKeys ==
    [user_name |-> {K_shimei, K_riyousha_shimei, K_riyousha_sama},
     user_name_furigana |-> {K_riyousha_shimei_furigana, K_shimei_no_furigana},
     staff_name |-> {K_sakuseisha},
     cm_location |-> {K_kaisai_basho},
     cm_time |-> {K_kaisai_jikan},
     cm_attendees |-> {K_kaigi_shussekisha},
     cm_service_manager |-> {K_service_kanri_sekininsha}]

\* C6: a manual user_name, user_name_furigana, staff_name or cm_* field that
\* is non-empty after trimming is the value of each of its keys in the resolved
\* mapping, whatever was extracted; an absent or whitespace-only field leaves
\* the extracted values of its keys as they were.
C6_ManualFieldsOverwriteTheirKeys ==
    rv.pc \in {"resolved", "failed"} =>
      /\ rv.pc = "resolved"
      /\ \A f \in DOMAIN ClaimedKeys : \A k \in ClaimedKeys[f] :
           IF Supplied(rv.form[f]) THEN HoldsAt(rv.resolved, k, rv.form[f])
           ELSE SameAt(rv.resolved, rv.extracted, k)

\* A manual user name replaced three extracted names while a whitespace-only
\* staff name left the extracted author in place.
C6_Witness ==
    /\ rv.pc = "resolved"
    /\ rv.extracted = FullOf(<<"X">>)
    /\ rv.form.user_name = <<"B">>
    /\ rv.form.staff_name = <<" ">>
    /\ \A k \in ClaimedKeys.user_name : Get(rv.resolved, k) = <<"B">>
    /\ Get(rv.resolved, K_sakuseisha) = <<"X">>

\* C7: a manual location, time, count or next_date that is non-empty after
\* trimming is held by the resolved mapping (under some key), whatever the AI
\* returned.
C7_LocationTimeCountNextDateWin ==
    rv.pc = "resolved" =>
      \A f \in {"location", "time", "count", "next_date"} :
        Supplied(rv.form[f]) =>
          \E k \in Keys(rv.resolved) : Get(rv.resolved, k) = rv.form[f]

\* The strings the claim gives for year y, month m, day d
ClaimedFullDate(y, m, d) ==
    DecNat(y) \o <<NEN>> \o (IF m < 10 THEN <<"0">> ELSE <<>>) \o DecNat(m) \o <<GATSU>>
              \o (IF d < 10 THEN <<"0">> ELSE <<>>) \o DecNat(d) \o <<NICHI>>

ClaimedEraDate(y, m, d) ==
    REIWA \o (IF y < 2018 THEN <<"-">> \o DecNat(2018 - y) ELSE DecNat(y - 2018))
          \o <<NEN>> \o DecNat(m) \o <<GATSU>> \o DecNat(d) \o <<NICHI>>

\* C8: a manual date that is a valid YYYY-MM-DD calendar date Y-M-D gives the
\* three full-date keys the zero-padded "YYYY年MM月DD日", the three token keys
\* the unpadded "Y年", "M月", "D日" and the era key "令和(Y-2018)年M月D日", each
\* replacing what was extracted; 2026-05-20 gives "令和8年5月20日" and
\* "2026年05月20日".
C8_ValidDateFansOut ==
    (rv.pc \in {"resolved", "failed"} /\ rv.dateCase.kind = "valid") =>
      LET y == rv.dateCase.ymd[1]
          m == rv.dateCase.ymd[2]
          d == rv.dateCase.ymd[3]
          r == rv.resolved
      IN  /\ rv.pc = "resolved"
          /\ \A k \in {K_sakusei_nengappi, K_hizuke, K_jisshibi} :
               HoldsAt(r, k, ClaimedFullDate(y, m, d))
          /\ HoldsAt(r, K_sakusei_nen_seireki, DecNat(y) \o <<NEN>>)
          /\ HoldsAt(r, K_sakusei_tsuki, DecNat(m) \o <<GATSU>>)
          /\ HoldsAt(r, K_sakusei_hi, DecNat(d) \o <<NICHI>>)
          /\ HoldsAt(r, K_kaisaibi_reiwa, ClaimedEraDate(y, m, d))
          /\ rv.dateCase.ymd = <<2026, 5, 20>> =>
               /\ Get(r, K_kaisaibi_reiwa)
                    = <<"rei", "wa", "8", "nen", "5", "gatsu", "2", "0", "nichi">>
               /\ Get(r, K_hizuke)
                    = <<"2", "0", "2", "6", "nen", "0", "5", "gatsu", "2", "0", "nichi">>

\* The date 2026-05-20 replaced seven extracted values.
C8_Witness ==
    /\ rv.pc = "resolved"
    /\ rv.form.date = <<"2", "0", "2", "6", "-", "0", "5", "-", "2", "0">>
    /\ rv.extracted = FullOf(<<"X">>)
    /\ \A k \in DateKeys : Has(rv.resolved, k) /\ Get(rv.resolved, k) # <<"X">>
    /\ Get(rv.resolved, K_sakusei_tsuki) = <<"5", "gatsu">>

-----------------------------------------------------------------------------
(* Claims about fill_excel, checked under SpecFill *)

\* The sheet a bare coordinate is claimed to address
ClaimedDefaultSheet(mapping) ==
    IF \E i \in 1..Len(mapping) :
         mapping[i][1] = K_sheet_name /\ mapping[i][2] \in {SheetOne, SheetTwo}
    THEN Get(mapping, K_sheet_name) ELSE SheetOne

\* The cell a declared config value addresses: "Cell" on the default sheet,
\* "Sheet!Cell" on a sheet of the workbook; no cell otherwise
ClaimedTargets(config_value, default_sheet) ==
    IF Len(config_value) = 1 THEN {<<default_sheet, config_value[1]>>} \cap AllCells
    ELSE IF Len(config_value) = 2
    THEN {<<<<config_value[1]>>, config_value[2]>>} \cap AllCells
    ELSE {}

\* The cells item i of the mapping addresses: none when its key is undeclared
ItemTargets(i) ==
    LET label == fx.mapping[i][1]
    IN  IF label \in DOMAIN fx.config_mapping
        THEN ClaimedTargets(fx.config_mapping[label], ClaimedDefaultSheet(fx.mapping))
        ELSE {}

FilledCells == outputDir[fx.returned].wb.cells

\* C5: a mapped field whose value is "" or null leaves its target cell as the
\* template has it, value and alignment (where no other field of the mapping
\* addresses the same cell).
C5_EmptyOrNullLeavesCell ==
    fx.pc = "filled" =>
      \A i \in 1..Len(fx.mapping) :
        fx.mapping[i][2] \in {<<>>, None} =>
          \A cell \in ItemTargets(i) :
            (\A j \in 1..Len(fx.mapping) : j # i => cell \notin ItemTargets(j))
              => FilledCells[cell] = fx.template.cells[cell]

\* C10: a cell that no declared field of the mapping addresses keeps its
\* template value and alignment; undeclared keys write nothing, and a mapping
\* of undeclared keys only gives a workbook equal to the template.
C10_OnlyDeclaredFieldsAreWritten ==
    fx.pc = "filled" =>
      /\ \A cell \in AllCells :
           (\A i \in 1..Len(fx.mapping) : cell \notin ItemTargets(i))
             => FilledCells[cell] = fx.template.cells[cell]
      /\ (\A i \in 1..Len(fx.mapping) : fx.mapping[i][1] \notin DOMAIN fx.config_mapping)
           => outputDir[fx.returned].wb = fx.template

\* An undeclared key with a value came with a declared one: the declared
\* field's cell on the second sheet was written, every other cell was not.
C10_Witness ==
    /\ fx.pc = "filled"
    /\ fx.template.cells[<<SheetOne, "A1">>].value = <<"T">>
    /\ fx.mapping = <<<<"u", <<"v">>>>, <<"f2", <<"v">>>>>>
    /\ FilledCells[<<SheetTwo, "B2">>].value = <<"v">>
    /\ \A cell \in AllCells \ {<<SheetTwo, "B2">>} :
         FilledCells[cell] = fx.template.cells[cell]

\* The (item, cell) pairs where a string value was written to a cell that no
\* other item of the mapping addresses
LoneStringWrites ==
    {<<i, cell>> \in (1..Len(fx.mapping)) \X AllCells :
        /\ fx.mapping[i][2] # None
        /\ cell \in ItemTargets(i)
        /\ \A j \in 1..Len(fx.mapping) : j # i => cell \notin ItemTargets(j)}

StartsWithBracket(value) == value # <<>> /\ value[1] = LBRACKET

\* C11: a string written to a cell gets one of three alignments.  A value
\* that begins with "【" and has fewer than 10 characters: rotation 255,
\* centred both ways, wrapped, shrink-to-fit and indent as the template has
\* them.  Otherwise a value of more than 50 characters: wrapped, horizontal and
\* vertical as the template has them, left and top where it has none.
\* Otherwise the alignment of the template.
C11_OneFormattingOutcomePerValue ==
    fx.pc = "filled" =>
      \A w \in LoneStringWrites :
        LET value == fx.mapping[w[1]][2]
            before == fx.template.cells[w[2]].alignment
            after == FilledCells[w[2]].alignment
        IN  IF StartsWithBracket(value) /\ Len(value) < 10
            THEN /\ after.text_rotation = 255
                 /\ after.horizontal = <<"center">>
                 /\ after.vertical = <<"center">>
                 /\ after.wrap_text = True
                 /\ after.shrink_to_fit = before.shrink_to_fit
                 /\ after.indent = before.indent
            ELSE IF Len(value) > 50
            THEN /\ after.wrap_text = True
                 /\ after.horizontal = IF before.horizontal = None
                                       THEN <<"left">> ELSE before.horizontal
                 /\ after.vertical = IF before.vertical = None
                                     THEN <<"top">> ELSE before.vertical
                 /\ after.text_rotation # 255
            ELSE after = before

\* A status tag and a text of 50 characters were written to a styled
\* template: the tag's cell stands vertical with the template's shrink-to-fit
\* and indent, the other cell has the template's alignment.
C11_Witness ==
    /\ fx.pc = "filled"
    /\ fx.template.cells[<<SheetOne, "A1">>].alignment = StyledAlignment
    /\ fx.mapping = <<<<"f1", <<LBRACKET, "t", "a", "rb">>>>, <<"f2", Repeat("x", 50)>>>>
    /\ FilledCells[<<SheetOne, "A1">>].alignment.text_rotation = 255
    /\ FilledCells[<<SheetOne, "A1">>].alignment.shrink_to_fit = True
    /\ FilledCells[<<SheetTwo, "B2">>].value = Repeat("x", 50)
    /\ FilledCells[<<SheetTwo, "B2">>].alignment = StyledAlignment

=============================================================================
